---- MODULE Spec2Model ----
(***************************************************************************)
(* A model of the doppio launch driver (src/src/jvm.coffee): the process-  *)
(* wide classpath (set_classpath), the class bytes provider                *)
(* (read_classfile) and the boot sequence (run_class).                     *)
(*                                                                         *)
(* Strings are sequences of one-character strings, so that split,          *)
(* normalize, charAt and concatenation are computed as the code computes   *)
(* them.                                                                   *)
(***************************************************************************)
EXTENDS Integers, Sequences, FiniteSets, TLC

VARIABLES
    \* ---- set_classpath / root.classpath
    classpath,          \* root.classpath: sequence of path strings
    jcl_path,           \* argument of set_classpath
    cp_arg,             \* argument `classpath` of set_classpath (a ':' list)
    dirs,               \* the directories that exist on the filesystem
    cp_pc,              \* "idle" | "set"
    \* ---- read_classfile
    cls_arg,            \* argument cls (a descriptor L...;)
    fs,                 \* what the filesystem does for each candidate file
    cb_raises,          \* whether cb raises when invoked
    rc_pc,              \* "idle" | "loop" | "read" | "cb" | "catch" | "done"
    rc_i,               \* loop index into root.classpath (1-based)
    rc_data,            \* local `data`
    rc_e,               \* the exception caught by `catch e`
    probed,             \* filenames handed to fs.existsSync, in order
    readLog,            \* filenames handed to fs.readFileSync, in order
    cbCalls,            \* arguments of the invocations of cb, in order
    failCalls,          \* errors carried by the invocations of failure_cb
    \* ---- run_class
    run_pc,             \* the step whose outcome is awaited
    system_initialized, \* rs.system_initialized
    done_cb,            \* TRUE iff a done_cb was supplied
    class_name,         \* argument class_name
    init_desc,          \* the descriptor handed to initialize_class
    cmdline_args,       \* argument cmdline_args
    main_method,        \* local main_method
    rs_args,            \* the arguments of the calls of rs.init_args
    started,            \* boot steps started, in order
    succeeded,          \* boot steps that reported success
    doneCalls,          \* number of invocations of done_cb
    asyncOps,           \* per rs.async_op suspension: continuations invoked
    thrown,             \* the error rethrown by the preinitialization handler
    preinit_error,      \* the error preinitialization reports when it fails
    \* ---- Method / AbstractMethodField (src/src/methods.ts)
    classfile,          \* the method_info being parsed and its owner class
    method,             \* the fields of the Method object
    m_pc,               \* "new" | "parsed"
    registry,           \* what jvm.getNative answers for this method
    heldRef,            \* the function a caller got from getNativeFunction()
    calls,              \* number of invocations made so far
    queryLog,           \* the arguments of the calls of jvm.getNative
    nativeLog,          \* the calls of native and trap functions
    threadExc,          \* the exceptions thrown on the thread
    lastReturn,         \* what the last invocation returned
    lastCall,           \* the last invocation: function, arguments, state before
    codeHistory,        \* the successive values of the code slot after parse
    slotsSet,           \* the values handed to setSlot so far
    \* ---- takeArgs / convertArgs
    a_pc,               \* "ready" | "pushed" | "taken" | "converted"
    params,             \* the params array handed to convertArgs
    caller_stack,       \* the interpreter operand stack
    stackBase,          \* the operand stack before the arguments were pushed
    convertedArgs,      \* what convertArgs returned
    takenArgs,          \* what takeArgs returned
    \* ---- Method.reflector
    refl_pc,            \* "idle" | "resolving" | "done" | "threw"
    is_constructor,     \* argument is_constructor
    resolveCalls,       \* the descriptor lists handed to resolveClasses
    mirrorLookups,      \* the descriptors looked up in the delivered mapping
    delivered,          \* what resolveClasses delivered: null or a mapping
    cbLog               \* what the reflector callback cb was given

cpVars  == <<classpath, jcl_path, cp_arg, dirs, cp_pc>>
rcVars  == <<cls_arg, fs, cb_raises, rc_pc, rc_i, rc_data, rc_e, probed,
             readLog, cbCalls, failCalls>>
runVars == <<run_pc, system_initialized, done_cb, class_name, init_desc,
             cmdline_args, main_method, rs_args, started, succeeded, doneCalls, asyncOps,
             thrown, preinit_error>>
methVars == <<classfile, method, m_pc, registry, heldRef, calls, queryLog,
              nativeLog, threadExc, lastReturn, lastCall, codeHistory,
              slotsSet>>
argVars  == <<a_pc, params, caller_stack, stackBase, convertedArgs, takenArgs>>
reflVars == <<refl_pc, is_constructor, resolveCalls, mirrorLookups, delivered,
              cbLog>>
mVars    == <<methVars, argVars, reflVars>>
vars    == <<cpVars, rcVars, runVars, mVars>>

NULL == "null"
\* `data` when the read yielded nothing, and `e` before anything was caught.
NoData == <<"null">>
NoError == <<"none">>

----------------------------------------------------------------------------
(* Bounds *)

MaxCpLen == 4
MaxJclLen == 2
MaxCP == 3

----------------------------------------------------------------------------
(* Strings *)

RECURSIVE SeqsUpTo(_, _)
SeqsUpTo(chars, n) ==
    IF n = 0 THEN {<<>>}
    ELSE LET shorter == SeqsUpTo(chars, n - 1)
         IN  shorter \cup {Append(s, c) : s \in shorter, c \in chars}

Last(s) == s[Len(s)]
Front(s) == SubSeq(s, 1, Len(s) - 1)
Range(s) == {s[k] : k \in 1..Len(s)}

\* String.prototype.split(sep) for a one-character separator: "" gives [""].
RECURSIVE split(_, _)
split(s, sep) ==
    IF \A k \in 1..Len(s) : s[k] # sep THEN <<s>>
    ELSE LET k == CHOOSE k \in 1..Len(s) :
                      s[k] = sep /\ \A m \in 1..(k - 1) : s[m] # sep
         IN  <<SubSeq(s, 1, k - 1)>> \o split(SubSeq(s, k + 1, Len(s)), sep)

\* Array.prototype.join(sep)
RECURSIVE join(_, _)
join(parts, sep) ==
    IF parts = <<>> THEN <<>>
    ELSE IF Len(parts) = 1 THEN parts[1]
    ELSE parts[1] \o <<sep>> \o join(Tail(parts), sep)

\* The backwards scan of node's normalizeArray: the kept parts and the number
\* of unmatched ".." left over.
RECURSIVE normalizeScan(_, _)
normalizeScan(parts, up) ==
    IF parts = <<>> THEN <<<<>>, up>>
    ELSE LET last == Last(parts)
             rest == Front(parts)
         IN  IF last = <<".">> THEN normalizeScan(rest, up)
             ELSE IF last = <<".", ".">> THEN normalizeScan(rest, up + 1)
             ELSE IF up > 0 THEN normalizeScan(rest, up - 1)
             ELSE LET r == normalizeScan(rest, 0)
                  IN  <<Append(r[1], last), r[2]>>

RECURSIVE dotdots(_)
dotdots(n) == IF n = 0 THEN <<>> ELSE <<<<".", ".">>>> \o dotdots(n - 1)

normalizeArray(parts, allowAboveRoot) ==
    LET r == normalizeScan(parts, 0)
    IN  IF allowAboveRoot THEN dotdots(r[2]) \o r[1] ELSE r[1]

\* path.normalize (posix): collapse separators, resolve "." and "..", keep a
\* trailing separator, "" becomes ".".
normalize(p) ==
    LET isAbsolute    == Len(p) > 0 /\ p[1] = "/"
        trailingSlash == Len(p) > 0 /\ Last(p) = "/"
        parts  == SelectSeq(split(p, "/"), LAMBDA x : x # <<>>)
        joined == join(normalizeArray(parts, ~isAbsolute), "/")
        p1 == IF joined = <<>> /\ ~isAbsolute THEN <<".">> ELSE joined
        p2 == IF p1 # <<>> /\ trailingSlash THEN Append(p1, "/") ELSE p1
    IN  IF isAbsolute THEN <<"/">> \o p2 ELSE p2

----------------------------------------------------------------------------
(* set_classpath *)

CpChars  == {"a", "/", ":", "."}
JclChars == {"j", "/"}

\* Directories that may or may not exist, and those that always do.
OptionalDirs == {<<"a", "/">>, <<"j", "/">>, <<"/", "j", "/">>}
PresentDirs  == {<<".", "/">>, <<"/">>}

existsSync(p) == p \in dirs

\* Faulty variant of standardize: the trailing '/' is not appended.
standardize_noSlash(class_path) == normalize(class_path)

\* class_path after lines 47-49: normalized, with a trailing '/'.
standardize(class_path) ==
    LET n == normalize(class_path)
    IN  IF n = <<>> \/ Last(n) # "/" THEN Append(n, "/") ELSE n

\* Faulty variant of pathList: jcl_path is put first (unshift for push).
pathList_jclFirst(jcl, cp) == <<jcl>> \o split(cp, ":")

\* The list the loop of set_classpath walks: classpath.split(':') then
\* push jcl_path.
pathList(jcl, cp) == Append(split(cp, ":"), jcl)

\* The loop of set_classpath: the standardized entries that exist, in order.
RECURSIVE keepExisting(_)
keepExisting(list) ==
    IF list = <<>> THEN <<>>
    ELSE LET class_path == standardize(list[1])
         IN  (IF existsSync(class_path) THEN <<class_path>> ELSE <<>>)
                 \o keepExisting(Tail(list))

set_classpath ==
    /\ cp_pc = "idle"
    /\ classpath' = keepExisting(pathList(jcl_path, cp_arg))
    /\ cp_pc' = "set"
    /\ UNCHANGED <<jcl_path, cp_arg, dirs, rcVars, runVars, mVars>>

----------------------------------------------------------------------------
(* read_classfile *)

\* Classpath entries and class descriptors the lookups are run on.
Paths == {<<"a", "/">>, <<"b", "/">>, <<"c", "/">>}
Descs == {<<"L", "A", ";">>, <<"L", "p", "/", "B", ";">>}

\* cls[1...-1]: Lfoo/bar/Baz; -> foo/bar/Baz
stripDescriptor(d) == SubSeq(d, 2, Len(d) - 1)

\* "#{p}/#{cls}.class"
filenameOf(p, c) == p \o <<"/">> \o c \o <<".", "c", "l", "a", "s", "s">>

\* What the filesystem does for one candidate file:
\*   absent       existsSync is false
\*   ok           existsSync is true, readFileSync returns the content
\*   existsThrows existsSync raises
\*   readThrows   existsSync is true, readFileSync raises
\*   nodata       existsSync is true, the read yields no data (null)
FsOutcomes == {"absent", "ok", "existsThrows", "readThrows", "nodata"}

FilesOf(d) == {filenameOf(p, stripDescriptor(d)) : p \in Paths}

\* The content of a file, as bytestr_to_array delivers it, and the errors.
bytesOf(filename) == <<"bytes", filename>>
ioError(filename) == <<"ioerror", filename>>
cbError           == <<"cberror">>
notFound(c)       == <<"Error: No file found for class", c>>

cls == stripDescriptor(cls_arg)
\* Faulty variant of filename: the classpath is walked from its end.
filename_reversed == filenameOf(classpath[Len(classpath) + 1 - rc_i], cls)

filename == filenameOf(classpath[rc_i], cls)

\* Line 16-18: the call; cls is stripped and the loop starts.
read_classfile ==
    /\ rc_pc = "idle"
    /\ rc_pc' = "loop"
    /\ rc_i' = 1
    /\ UNCHANGED <<cls_arg, fs, cb_raises, rc_data, rc_e, probed, readLog,
                   cbCalls, failCalls, cpVars, runVars, mVars>>

\* Lines 18-21: one iteration up to `continue unless fs.existsSync filename`.
loopProbe ==
    /\ rc_pc = "loop"
    /\ rc_i <= Len(classpath)
    /\ probed' = Append(probed, filename)
    /\ IF fs[filename] = "existsThrows"
       THEN /\ rc_e' = ioError(filename)
            /\ rc_pc' = "catch"
            /\ rc_i' = rc_i
       ELSE IF fs[filename] = "absent"
       THEN /\ rc_i' = rc_i + 1
            /\ UNCHANGED <<rc_pc, rc_e>>
       ELSE /\ rc_pc' = "read"
            /\ UNCHANGED <<rc_i, rc_e>>
    /\ UNCHANGED <<cls_arg, fs, cb_raises, rc_data, readLog, cbCalls,
                   failCalls, cpVars, runVars, mVars>>

\* Line 22: data = util.bytestr_to_array fs.readFileSync(filename, 'binary').
readFile ==
    /\ rc_pc = "read"
    /\ readLog' = Append(readLog, filename)
    /\ IF fs[filename] = "readThrows"
       THEN /\ rc_e' = ioError(filename)
            /\ rc_pc' = "catch"
            /\ UNCHANGED rc_data
       ELSE /\ rc_data' = IF fs[filename] = "ok" THEN bytesOf(filename) ELSE NoData
            /\ rc_pc' = "cb"
            /\ UNCHANGED rc_e
    /\ UNCHANGED <<cls_arg, fs, cb_raises, rc_i, probed, cbCalls, failCalls,
                   cpVars, runVars, mVars>>

\* Lines 23-24: cb(data) if data?; return.  cb runs inside the try block.
callCb ==
    /\ rc_pc = "cb"
    /\ IF rc_data = NoData
       THEN /\ rc_pc' = "done"
            /\ UNCHANGED <<cbCalls, rc_e>>
       ELSE /\ cbCalls' = Append(cbCalls, rc_data)
            /\ IF cb_raises
               THEN rc_e' = cbError /\ rc_pc' = "catch"
               ELSE rc_pc' = "done" /\ UNCHANGED rc_e
    /\ UNCHANGED <<cls_arg, fs, cb_raises, rc_i, rc_data, probed, readLog,
                   failCalls, cpVars, runVars, mVars>>

\* Faulty variant of catchError: the error is swallowed and the search goes
\* on with the next entry.
catchError_continues ==
    /\ rc_pc = "catch"
    /\ rc_pc' = "loop"
    /\ rc_i' = rc_i + 1
    /\ UNCHANGED <<cls_arg, fs, cb_raises, rc_data, rc_e, probed, readLog,
                   cbCalls, failCalls, cpVars, runVars, mVars>>

\* Lines 25-27: catch e; failure_cb(()->throw e); return.
catchError ==
    /\ rc_pc = "catch"
    /\ failCalls' = Append(failCalls, rc_e)
    /\ rc_pc' = "done"
    /\ UNCHANGED <<cls_arg, fs, cb_raises, rc_i, rc_data, rc_e, probed,
                   readLog, cbCalls, cpVars, runVars, mVars>>

\* Line 29: the loop ran out of entries.
noFileFound ==
    /\ rc_pc = "loop"
    /\ rc_i > Len(classpath)
    /\ failCalls' = Append(failCalls, notFound(cls))
    /\ rc_pc' = "done"
    /\ UNCHANGED <<cls_arg, fs, cb_raises, rc_i, rc_data, rc_e, probed,
                   readLog, cbCalls, cpVars, runVars, mVars>>

----------------------------------------------------------------------------
(* run_class *)

\* The values rs.system_initialized may hold when run_class is called.
SystemInitializedValues == {"undefined", NULL, "false", "true"}
ClassNames  == {<<"A">>, <<"p", "/", "B">>}
CmdlineArgs == {<<>>, <<"x">>}
PreinitErrors == {"LinkageError", "ClassNotFound"}

\* The boot steps, in the order the driver is meant to start them.
BootOrder == <<"preinitialize_core_classes", "init_threads",
               "init_system_class", "initialize_class", "init_args",
               "method_lookup", "setup_stack">>

\* class_descriptor = "L#{class_name};"
class_descriptor == <<"L">> \o class_name \o <<";">>

\* CoffeeScript's existence operator `x?`: neither undefined nor null.
exists(x) == x # "undefined" /\ x # NULL

\* done_cb?(): the invocation happens only when a done_cb was supplied.
callDone == doneCalls' = IF done_cb THEN doneCalls + 1 ELSE doneCalls

NoAsync == [opened |-> FALSE, resume |-> 0, except |-> 0]

\* Lines 60-64: run_main opens an async_op suspension and asks the bootstrap
\* loader to initialize the main class.
run_main ==
    /\ run_pc' = "initialize_class"
    /\ init_desc' = class_descriptor
    /\ asyncOps' = [asyncOps EXCEPT !.initialize_class.opened = TRUE]

\* Lines 56-59, 85-87: the call; preinitialize_core_classes is started inside
\* an async_op suspension.
run_class ==
    /\ run_pc = "idle"
    /\ run_pc' = "preinitialize_core_classes"
    /\ started' = Append(started, "preinitialize_core_classes")
    /\ asyncOps' = [asyncOps EXCEPT !.preinitialize_core_classes.opened = TRUE]
    /\ UNCHANGED <<preinit_error, system_initialized, done_cb, class_name, init_desc,
                   cmdline_args, main_method, rs_args, succeeded, doneCalls,
                   thrown, cpVars, rcVars, mVars>>

\* Lines 74-76: preinitialize_core_classes reports success by calling
\* run_program, which starts init_threads.
run_program ==
    /\ run_pc = "preinitialize_core_classes"
    /\ succeeded' = succeeded \cup {"preinitialize_core_classes"}
    /\ started' = Append(started, "init_threads")
    /\ run_pc' = "init_threads"
    /\ UNCHANGED <<preinit_error, system_initialized, done_cb, class_name, init_desc,
                   cmdline_args, main_method, rs_args, doneCalls, asyncOps,
                   thrown, cpVars, rcVars, mVars>>

\* Lines 87-90: preinitialize_core_classes reports failure e: throw e.
preinitFailed ==
    /\ run_pc = "preinitialize_core_classes"
    /\ thrown' = preinit_error
    /\ run_pc' = "fatal"
    /\ UNCHANGED <<preinit_error, system_initialized, done_cb, class_name, init_desc,
                   cmdline_args, main_method, rs_args, started, succeeded,
                   doneCalls, asyncOps, cpVars, rcVars, mVars>>

\* Faulty variant of initThreadsDone: `return unless success` is missing.
initThreadsDone_ignoresFailure ==
    /\ run_pc = "init_threads"
    /\ \E success \in BOOLEAN :
         /\ succeeded' = IF success THEN succeeded \cup {"init_threads"}
                         ELSE succeeded
         /\ IF exists(system_initialized)
            THEN /\ run_main
                 /\ started' = Append(started, "initialize_class")
            ELSE /\ run_pc' = "init_system_class"
                 /\ started' = Append(started, "init_system_class")
                 /\ UNCHANGED <<asyncOps, init_desc>>
    /\ UNCHANGED <<preinit_error, system_initialized, done_cb, class_name,
                   cmdline_args, main_method, rs_args, doneCalls, thrown,
                   cpVars, rcVars, mVars>>

\* Lines 76-81: the completion of init_threads.
initThreadsDone ==
    /\ run_pc = "init_threads"
    /\ \E success \in BOOLEAN :
         IF ~success
         THEN /\ run_pc' = "stopped"
              /\ UNCHANGED <<started, succeeded, asyncOps, init_desc>>
         ELSE /\ succeeded' = succeeded \cup {"init_threads"}
              /\ IF exists(system_initialized)
                 THEN /\ run_main
                      /\ started' = Append(started, "initialize_class")
                 ELSE /\ run_pc' = "init_system_class"
                      /\ started' = Append(started, "init_system_class")
                      /\ UNCHANGED <<asyncOps, init_desc>>
    /\ UNCHANGED <<preinit_error, system_initialized, done_cb, class_name, cmdline_args,
                   main_method, rs_args, doneCalls, thrown, cpVars, rcVars, mVars>>

\* Faulty variant of initSystemDone: `return unless success` is missing.
initSystemDone_ignoresFailure ==
    /\ run_pc = "init_system_class"
    /\ \E success \in BOOLEAN :
         /\ succeeded' = IF success THEN succeeded \cup {"init_system_class"}
                         ELSE succeeded
         /\ run_main
         /\ started' = Append(started, "initialize_class")
    /\ UNCHANGED <<preinit_error, system_initialized, done_cb, class_name,
                   cmdline_args, main_method, rs_args, doneCalls, thrown,
                   cpVars, rcVars, mVars>>

\* Lines 81-83: the completion of init_system_class.
initSystemDone ==
    /\ run_pc = "init_system_class"
    /\ \E success \in BOOLEAN :
         IF ~success
         THEN /\ run_pc' = "stopped"
              /\ UNCHANGED <<started, succeeded, asyncOps, init_desc>>
         ELSE /\ succeeded' = succeeded \cup {"init_system_class"}
              /\ run_main
              /\ started' = Append(started, "initialize_class")
    /\ UNCHANGED <<preinit_error, system_initialized, done_cb, class_name, cmdline_args,
                   main_method, rs_args, doneCalls, thrown, cpVars, rcVars, mVars>>

\* Lines 64-67: initialize_class succeeded: init_args, then method_lookup is
\* started inside run_until_finished.
initializeClassOk ==
    /\ run_pc = "initialize_class"
    /\ succeeded' = succeeded \cup {"initialize_class", "init_args"}
    /\ rs_args' = Append(rs_args, cmdline_args)
    /\ started' = started \o <<"init_args", "method_lookup">>
    /\ run_pc' = "method_lookup"
    /\ UNCHANGED <<preinit_error, system_initialized, done_cb, class_name, init_desc,
                   cmdline_args, main_method, doneCalls, asyncOps, thrown,
                   cpVars, rcVars, mVars>>

\* Line 71: initialize_class failed: the loader invokes except_cb.
initializeClassFailed ==
    /\ run_pc = "initialize_class"
    /\ asyncOps' = [asyncOps EXCEPT !.initialize_class.except = @ + 1]
    /\ run_pc' = "stopped"
    /\ UNCHANGED <<preinit_error, system_initialized, done_cb, class_name, init_desc,
                   cmdline_args, main_method, rs_args, started, succeeded,
                   doneCalls, thrown, cpVars, rcVars, mVars>>

\* Faulty variant of lookupDone: after done_cb the stack is set up anyway.
lookupDone_fallsThrough ==
    /\ run_pc = "method_lookup"
    /\ \E success \in BOOLEAN, m \in {NULL, "main([Ljava/lang/String;)V"} :
         /\ main_method' = m
         /\ IF ~(success /\ exists(m)) THEN callDone ELSE UNCHANGED doneCalls
         /\ succeeded' = IF success THEN succeeded \cup {"method_lookup"}
                         ELSE succeeded
         /\ started' = Append(started, "setup_stack")
         /\ run_pc' = "setup_stack"
    /\ UNCHANGED <<preinit_error, system_initialized, done_cb, class_name, init_desc,
                   cmdline_args, rs_args, asyncOps, thrown, cpVars, rcVars, mVars>>

\* Lines 67-69: method_lookup assigned main_method (or raised) and the
\* scheduler reports success or failure.
lookupDone ==
    /\ run_pc = "method_lookup"
    /\ \E success \in BOOLEAN, m \in {NULL, "main([Ljava/lang/String;)V"} :
         /\ main_method' = m
         /\ IF ~(success /\ exists(m))
            THEN /\ callDone
                 /\ run_pc' = "finished"
                 /\ succeeded' = IF success
                                 THEN succeeded \cup {"method_lookup"}
                                 ELSE succeeded
                 /\ UNCHANGED started
            ELSE /\ succeeded' = succeeded \cup {"method_lookup"}
                 /\ started' = Append(started, "setup_stack")
                 /\ run_pc' = "setup_stack"
                 /\ UNCHANGED doneCalls
    /\ UNCHANGED <<preinit_error, system_initialized, done_cb, class_name, init_desc,
                   cmdline_args, rs_args, asyncOps, thrown, cpVars, rcVars, mVars>>

\* Faulty variant of setupDone: done_cb is invoked whatever the outcome.
setupDone_alwaysDone ==
    /\ run_pc = "setup_stack"
    /\ \E success \in BOOLEAN :
         /\ callDone
         /\ succeeded' = IF success THEN succeeded \cup {"setup_stack"}
                         ELSE succeeded
    /\ run_pc' = "finished"
    /\ UNCHANGED <<preinit_error, system_initialized, done_cb, class_name,
                   init_desc, cmdline_args, main_method, rs_args, started,
                   asyncOps, thrown, cpVars, rcVars, mVars>>

\* Lines 69-70: the completion of main_method.setup_stack.
setupDone ==
    /\ run_pc = "setup_stack"
    /\ \E success \in BOOLEAN :
         IF success
         THEN /\ callDone
              /\ succeeded' = succeeded \cup {"setup_stack"}
         ELSE UNCHANGED <<doneCalls, succeeded>>
    /\ run_pc' = "finished"
    /\ UNCHANGED <<preinit_error, system_initialized, done_cb, class_name, init_desc,
                   cmdline_args, main_method, rs_args, started, asyncOps,
                   thrown, cpVars, rcVars, mVars>>

----------------------------------------------------------------------------
(* Method / AbstractMethodField: parsing and the code slot *)

\* Descriptors and signatures are sequences whose elements are single
\* characters, except that a class or member name is one element.
MaxParams == 2
MaxCalls == 3
MaxSlot == 1
MaxStack == 2

SystemCls       == <<"L", "java/lang/System", ";">>
MethodHandleCls == <<"L", "java/lang/invoke/MethodHandle", ";">>
FooCls          == <<"L", "Foo", ";">>

ObjectT == <<"L", "java/lang/Object", ";">>
StringT == <<"L", "java/lang/String", ";">>
PolymorphicDescriptor == <<"(", "[">> \o ObjectT \o <<")">> \o ObjectT

\* util.descriptor2typestr on a reference type: Lfoo/Bar; -> foo/Bar
descriptor2typestr(d) ==
    IF Len(d) >= 2 /\ d[1] = "L" /\ Last(d) = ";"
    THEN SubSeq(d, 2, Len(d) - 1) ELSE d

\* util.ext_classname: the type string with '/' replaced by '.'
DottedName == [n \in {"java/lang/System", "java/lang/invoke/MethodHandle",
                      "Foo"} |->
                 CASE n = "java/lang/System" -> "java.lang.System"
                   [] n = "java/lang/invoke/MethodHandle"
                          -> "java.lang.invoke.MethodHandle"
                   [] OTHER -> "Foo"]
ext_classname(d) == <<DottedName[descriptor2typestr(d)[1]]>>

\* String.prototype.indexOf(pat, from), 0-based, -1 when absent.
indexOf(str, pat, from) ==
    LET hits == {k \in from..(Len(str) - Len(pat)) :
                    SubSeq(str, k + 1, k + Len(pat)) = pat}
    IN  IF hits = {} THEN -1 ELSE CHOOSE k \in hits : \A m \in hits : k <= m

\* The keys of trapped_methods: (class, name + descriptor).
trapped_methods ==
    { <<"java/lang/ref/Reference", <<"<clinit>", "(", ")", "V">> >>,
      <<"java/lang/System",
        <<"loadLibrary", "(">> \o StringT \o <<")", "V">> >>,
      <<"java/lang/Terminator", <<"setup", "(", ")", "V">> >>,
      <<"java/util/concurrent/atomic/AtomicInteger",
        <<"compareAndSet", "(", "I", "I", ")", "Z">> >>,
      <<"java/nio/Bits",
        <<"byteOrder", "(", ")", "L", "java/nio/ByteOrder", ";">> >>,
      <<"java/nio/Bits",
        <<"copyToByteArray", "(", "J">> \o ObjectT \o <<"J", "J", ")", "V">> >>,
      <<"java/nio/charset/Charset$3",
        <<"run", "(", ")">> \o ObjectT >> }

\* The values of the code slot.
Unset     == [kind |-> "unset"]
NullCode  == [kind |-> "null"]
Binder    == [kind |-> "binder"]
Nop       == [kind |-> "nop"]
Trap(key) == [kind |-> "trap", key |-> key]
Native(c) == [kind |-> "native", fn |-> c]
CodeAttr(a) == [kind |-> "attr", attr |-> a]
\* typeof code === 'function'
isFunction(code) == code.kind \in {"binder", "nop", "trap", "native"}

\* getTrappedMethod(clsName, methSig): the trap function or null.
getTrappedMethod(clsName, methSig) ==
    LET key == <<descriptor2typestr(clsName)[1], methSig>>
    IN  IF key \in trapped_methods THEN Trap(key) ELSE NullCode

\* get_attribute(name): the first attribute of that name, or null.
NoAttr == [name |-> "null"]
get_attribute(attrs, name) ==
    LET hits == {k \in 1..Len(attrs) : attrs[k].name = name}
    IN  IF hits = {} THEN NoAttr
        ELSE attrs[CHOOSE k \in hits : \A m \in hits : k <= m]

\* util.carr2descriptor: the length of the descriptor token at the front.
RECURSIVE tokenLen(_)
tokenLen(carr) ==
    IF carr[1] = "[" THEN 1 + tokenLen(Tail(carr))
    ELSE IF carr[1] = "L"
    THEN CHOOSE k \in 1..Len(carr) :
             carr[k] = ";" /\ \A m \in 1..(k - 1) : carr[m] # ";"
    ELSE 1

\* while (field = util.carr2descriptor(param_carr)) param_types.push(field)
RECURSIVE paramTypesOf(_)
paramTypesOf(carr) ==
    IF carr = <<>> THEN <<>>
    ELSE LET n == tokenLen(carr)
         IN  <<SubSeq(carr, 1, n)>> \o paramTypesOf(SubSeq(carr, n + 1, Len(carr)))

RECURSIVE wordsOf(_)
wordsOf(types) ==
    IF types = <<>> THEN 0
    ELSE (IF types[1] = <<"D">> \/ types[1] = <<"J">> THEN 2 ELSE 1)
             + wordsOf(Tail(types))

\* Method.parse_descriptor: /\(([^)]*)\)(.*)/ then the derived fields.
parse_descriptor(raw_descriptor, isStatic) ==
    LET open  == indexOf(raw_descriptor, <<"(">>, 0) + 1
        close == CHOOSE k \in (open + 1)..Len(raw_descriptor) :
                     /\ raw_descriptor[k] = ")"
                     /\ \A m \in (open + 1)..(k - 1) : raw_descriptor[m] # ")"
        types == paramTypesOf(SubSeq(raw_descriptor, open + 1, close - 1))
    IN  [param_types |-> types,
         param_bytes |-> wordsOf(types) + (IF isStatic THEN 0 ELSE 1),
         num_args    |-> Len(types) + (IF isStatic THEN 0 ELSE 1),
         return_type |-> SubSeq(raw_descriptor, close + 1, Len(raw_descriptor))]

\* full_signature(): ext_classname(owner) + "::" + name + raw_descriptor
full_signature(m) ==
    ext_classname(m.cls) \o <<"::">> \o <<m.name>> \o m.raw_descriptor
methSigOf(m) == <<m.name>> \o m.raw_descriptor

\* getParamWordSize() and getNumberOfParameters()
getParamWordSize(m) == m.param_bytes
getNumberOfParameters(m) == m.num_args

\* A Method object right after construction.
NewMethod(owner) ==
    [cls |-> owner, slot |-> -1,
     accessFlags |-> [STATIC |-> FALSE, NATIVE |-> FALSE, ABSTRACT |-> FALSE,
                      VARARGS |-> FALSE],
     name |-> "", raw_descriptor |-> <<>>, attrs |-> <<>>,
     param_types |-> <<>>, param_bytes |-> 0, num_args |-> 0,
     return_type |-> <<>>, code |-> Unset]

\* AbstractMethodField.parse: flags, name and descriptor from the class file,
\* parse_descriptor, then the attributes.
baseParse(m, cf) ==
    LET d == parse_descriptor(cf.raw_descriptor, cf.accessFlags.STATIC)
    IN  [m EXCEPT !.accessFlags = cf.accessFlags, !.name = cf.name,
                  !.raw_descriptor = cf.raw_descriptor, !.attrs = cf.attrs,
                  !.param_types = d.param_types, !.param_bytes = d.param_bytes,
                  !.num_args = d.num_args, !.return_type = d.return_type]

\* Whether the native method is one of the no-op registration hooks.
isRegistrationHook(sig) ==
    ~(indexOf(sig, <<"::", "registerNatives", "(", ")", "V">>, 1) < 0
        /\ indexOf(sig, <<"::", "initIDs", "(", ")", "V">>, 1) < 0)

\* Faulty variant of resolveCode: a trapped method keeps its NATIVE flag.
resolveCode_keepsFlags(m) ==
    LET trap == getTrappedMethod(m.cls, methSigOf(m))
    IN  IF trap # NullCode
        THEN [m EXCEPT !.code = trap]
        ELSE IF m.accessFlags.NATIVE
        THEN [m EXCEPT !.code = IF isRegistrationHook(full_signature(m))
                                 THEN Nop ELSE Binder]
        ELSE IF ~m.accessFlags.ABSTRACT
        THEN LET a == get_attribute(m.attrs, "Code")
             IN  [m EXCEPT !.code = IF a = NoAttr THEN NullCode
                                    ELSE CodeAttr(a)]
        ELSE m

\* Method.parse after super.parse: the resolution cascade of the code slot.
resolveCode(m) ==
    LET trap == getTrappedMethod(m.cls, methSigOf(m))
    IN  IF trap # NullCode
        THEN [m EXCEPT !.code = trap, !.accessFlags.NATIVE = TRUE]
        ELSE IF m.accessFlags.NATIVE
        THEN [m EXCEPT !.code = IF isRegistrationHook(full_signature(m))
                                 THEN Nop ELSE Binder]
        ELSE IF ~m.accessFlags.ABSTRACT
        THEN LET a == get_attribute(m.attrs, "Code")
             IN  [m EXCEPT !.code = IF a = NoAttr THEN NullCode
                                    ELSE CodeAttr(a)]
        ELSE m

\* Faulty variant of getCodeAttributeOk: the NATIVE flag is not tested.
getCodeAttributeOk_ignoresNative(m) == ~m.accessFlags.ABSTRACT
\* getCodeAttribute(): whether its assertion passes.
getCodeAttributeOk(m) == ~m.accessFlags.NATIVE /\ ~m.accessFlags.ABSTRACT
\* Faulty variant of getNativeFunctionOk: abstract methods are refused.
getNativeFunctionOk_notAbstract(m) ==
    m.accessFlags.NATIVE /\ isFunction(m.code) /\ ~m.accessFlags.ABSTRACT
\* getNativeFunction(): whether its assertion passes.
getNativeFunctionOk(m) == m.accessFlags.NATIVE /\ isFunction(m.code)

\* Method.parse
parse ==
    /\ m_pc = "new"
    /\ method' = resolveCode(baseParse(method, classfile))
    /\ codeHistory' = <<method'.code>>
    /\ m_pc' = "parsed"
    /\ UNCHANGED <<classfile, registry, heldRef, calls, queryLog, nativeLog,
                   threadExc, lastReturn, lastCall, slotsSet, argVars,
                   reflVars, cpVars, rcVars, runVars>>

\* setSlot(slot)
setSlot ==
    /\ \E slot \in 0..MaxSlot :
         /\ method' = [method EXCEPT !.slot = slot]
         /\ slotsSet' = slotsSet \cup {slot}
    /\ UNCHANGED <<classfile, m_pc, registry, heldRef, calls, queryLog,
                   nativeLog, threadExc, lastReturn, lastCall, codeHistory,
                   argVars, reflVars, cpVars, rcVars, runVars>>

----------------------------------------------------------------------------
(* Invoking a native method *)

NoNative == "none"
NativeFns == {"c1", "c2"}
\* The argument lists a native body is invoked with (the thread first).
NativeArgs == {<<"thread">>, <<"thread", "arg">>}
NoRef == [kind |-> "none"]
NoCall == [fn |-> NoRef, args |-> <<>>, registry |-> NoNative, code |-> Unset,
           queries |-> 0, natives |-> 0, excs |-> 0]
Undefined == <<"undefined">>
\* What calling function fn with args returns.
returnOf(fn, args) == IF fn = Nop THEN Undefined ELSE <<"result", fn, args>>

UnsatisfiedLinkError(sig) ==
    [cls |-> "Ljava/lang/UnsatisfiedLinkError;",
     msg |-> <<"Native method '">> \o sig \o <<"' not implemented.">>]

\* A caller obtains the method's native function: getNativeFunction().
getNativeFunction ==
    /\ m_pc = "parsed"
    /\ getNativeFunctionOk(method)
    /\ heldRef' = method.code
    /\ UNCHANGED <<classfile, method, m_pc, registry, calls, queryLog,
                   nativeLog, threadExc, lastReturn, lastCall, codeHistory,
                   slotsSet, argVars, reflVars, cpVars, rcVars, runVars>>

\* The native registry gains or replaces the implementation of the method.
registerNative ==
    /\ m_pc = "parsed"
    /\ \E c \in NativeFns \ {registry} : registry' = c
    /\ UNCHANGED <<classfile, method, m_pc, heldRef, calls, queryLog,
                   nativeLog, threadExc, lastReturn, lastCall, codeHistory,
                   slotsSet, argVars, reflVars, cpVars, rcVars, runVars>>

\* Faulty variant of binderBody: the function found is not memoized.
binderBody_noMemo(args) ==
    /\ queryLog' = Append(queryLog, <<method.cls, methSigOf(method)>>)
    /\ IF registry = NoNative
       THEN /\ threadExc' = Append(threadExc,
                                   UnsatisfiedLinkError(full_signature(method)))
            /\ lastReturn' = Undefined
            /\ UNCHANGED <<method, nativeLog>>
       ELSE /\ nativeLog' = Append(nativeLog,
                                   [fn |-> Native(registry), args |-> args])
            /\ lastReturn' = returnOf(Native(registry), args)
            /\ UNCHANGED <<method, threadExc>>

\* Lines 256-266: the body of the deferred binder, called with args.
binderBody(args) ==
    /\ queryLog' = Append(queryLog, <<method.cls, methSigOf(method)>>)
    /\ IF registry = NoNative
       THEN /\ threadExc' = Append(threadExc,
                                   UnsatisfiedLinkError(full_signature(method)))
            /\ lastReturn' = Undefined
            /\ UNCHANGED <<method, nativeLog>>
       ELSE /\ method' = [method EXCEPT !.code = Native(registry)]
            /\ nativeLog' = Append(nativeLog,
                                   [fn |-> Native(registry), args |-> args])
            /\ lastReturn' = returnOf(Native(registry), args)
            /\ UNCHANGED threadExc

\* The caller invokes the function it holds: the binder, or a trap, NOP or
\* bound native body.
invoke ==
    /\ m_pc = "parsed"
    /\ heldRef # NoRef
    /\ calls < MaxCalls
    /\ calls' = calls + 1
    /\ \E args \in NativeArgs :
         /\ lastCall' = [fn |-> heldRef, args |-> args, registry |-> registry,
                         code |-> method.code, queries |-> Len(queryLog),
                         natives |-> Len(nativeLog), excs |-> Len(threadExc)]
         /\ IF heldRef = Binder
            THEN binderBody(args)
            ELSE /\ nativeLog' = Append(nativeLog,
                                        [fn |-> heldRef, args |-> args])
                 /\ lastReturn' = returnOf(heldRef, args)
                 /\ UNCHANGED <<method, queryLog, threadExc>>
    /\ codeHistory' = IF method'.code = Last(codeHistory) THEN codeHistory
                      ELSE Append(codeHistory, method'.code)
    /\ UNCHANGED <<classfile, m_pc, registry, heldRef, slotsSet, argVars,
                   reflVars, cpVars, rcVars, runVars>>

----------------------------------------------------------------------------
(* takeArgs and convertArgs *)

\* Operand stack values: the thread, the pushed arguments, older entries.
thread == <<"thread", 0>>
argValue(k) == <<"arg", k>>
StackValues == {<<"x", 0>>, <<"y", 0>>}
UndefinedValue == <<"undefined", 0>>

\* The parameter types the descriptors are built from.
ParamTypeSet == {<<"I">>, <<"J">>, <<"D">>, <<"[", "J">>, StringT}
RECURSIVE concat(_)
concat(seqs) == IF seqs = <<>> THEN <<>> ELSE seqs[1] \o concat(Tail(seqs))
descriptorOf(types, ret) == <<"(">> \o concat(types) \o <<")">> \o ret

\* Array.prototype.slice(start)
slice(arr, start) ==
    LET from == IF start < 0
                THEN (IF Len(arr) + start < 0 THEN 0 ELSE Len(arr) + start)
                ELSE (IF start > Len(arr) THEN Len(arr) ELSE start)
    IN  SubSeq(arr, from + 1, Len(arr))

\* arr[i], 0-based; undefined outside the array.
at(arr, i) == IF i >= 0 /\ i < Len(arr) THEN arr[i + 1] ELSE UndefinedValue

\* isSignaturePolymorphic()
isSignaturePolymorphic(m) ==
    /\ m.cls = MethodHandleCls
    /\ m.accessFlags.NATIVE
    /\ m.accessFlags.VARARGS
    /\ m.raw_descriptor = PolymorphicDescriptor

\* The caller pushes the method's arguments, getParamWordSize() words.
pushArgs ==
    /\ m_pc = "parsed"
    /\ a_pc = "ready"
    /\ caller_stack' = stackBase \o [k \in 1..getParamWordSize(method) |-> argValue(k)]
    /\ a_pc' = "pushed"
    /\ UNCHANGED <<params, stackBase, convertedArgs, takenArgs, methVars,
                   reflVars, cpVars, rcVars, runVars>>

\* Faulty variant of takeArgs: the arguments are sliced from the end.
takeArgs_sliceFromEnd ==
    /\ a_pc = "pushed"
    /\ takenArgs' = slice(caller_stack, 0 - method.param_bytes)
    /\ caller_stack' = SubSeq(caller_stack, 1,
                              Len(caller_stack) - method.param_bytes)
    /\ a_pc' = "taken"
    /\ UNCHANGED <<params, stackBase, convertedArgs, methVars, reflVars,
                   cpVars, rcVars, runVars>>

\* takeArgs(caller_stack)
takeArgs ==
    /\ a_pc = "pushed"
    /\ LET start == Len(caller_stack) - method.param_bytes
       IN  /\ takenArgs' = slice(caller_stack, start)
           /\ caller_stack' = SubSeq(caller_stack, 1,
                                     Len(caller_stack) - method.param_bytes)
    /\ a_pc' = "taken"
    /\ UNCHANGED <<params, stackBase, convertedArgs, methVars, reflVars,
                   cpVars, rcVars, runVars>>

\* Faulty variant of convertLoop: the second slot of J and D is not skipped.
RECURSIVE convertLoop_noSkip(_, _, _)
convertLoop_noSkip(types, prm, argIdx) ==
    IF types = <<>> THEN <<>>
    ELSE <<at(prm, argIdx)>> \o convertLoop_noSkip(Tail(types), prm, argIdx + 1)

\* Lines 375-379: the loop of convertArgs from parameter i on.
RECURSIVE convertLoop(_, _, _)
convertLoop(types, prm, argIdx) ==
    IF types = <<>> THEN <<>>
    ELSE <<at(prm, argIdx)>>
           \o convertLoop(Tail(types), prm,
                          argIdx + (IF types[1] = <<"J">> \/ types[1] = <<"D">>
                                    THEN 2 ELSE 1))

\* Lines 370-380: the conversion of a method that is not signature
\* polymorphic.
convertPlain(m, prm) ==
    IF ~m.accessFlags.STATIC
    THEN <<thread, at(prm, 0)>> \o convertLoop(m.param_types, prm, 1)
    ELSE <<thread>> \o convertLoop(m.param_types, prm, 0)

\* convertArgs(thread, params), called with the arguments takeArgs returned.
convertArgs ==
    /\ a_pc = "taken"
    /\ IF isSignaturePolymorphic(method)
       THEN /\ params' = <<thread>> \o takenArgs
            /\ convertedArgs' = params'
       ELSE /\ params' = takenArgs
            /\ convertedArgs' = convertPlain(method, takenArgs)
    /\ a_pc' = "converted"
    /\ UNCHANGED <<caller_stack, stackBase, takenArgs, methVars, reflVars,
                   cpVars, rcVars, runVars>>

----------------------------------------------------------------------------
(* Method.reflector *)

ThrowableT == <<"L", "java/lang/Throwable", ";">>
IOExceptionT == <<"L", "java/io/IOException", ";">>
AnyCatch == <<"<any>">>

\* The attribute lists a method_info may carry.
CodePlain    == [name |-> "Code", exceptionHandlers |-> <<>>]
CodeHandlers == [name |-> "Code",
                 exceptionHandlers |-> <<[catchType |-> AnyCatch],
                                         [catchType |-> IOExceptionT]>>]
ExceptionsAttr == [name |-> "Exceptions", exceptions |-> <<IOExceptionT>>]
AttrLists == {<<>>, <<CodePlain>>, <<CodeHandlers>>, <<ExceptionsAttr>>,
              <<ExceptionsAttr, CodeHandlers>>}

NullMirror == [typestr |-> "null"]

\* The catch types of the handlers that are not '<any>'.
RECURSIVE catchTypes(_)
catchTypes(eh) ==
    IF eh = <<>> THEN <<>>
    ELSE (IF eh[1].catchType # AnyCatch THEN <<eh[1].catchType>> ELSE <<>>)
             \o catchTypes(Tail(eh))

hasCode(m) == ~m.accessFlags.NATIVE /\ ~m.accessFlags.ABSTRACT
exceptionsOf(m) ==
    LET exceptionAttr == get_attribute(m.attrs, "Exceptions")
    IN  IF exceptionAttr # NoAttr THEN exceptionAttr.exceptions ELSE <<>>

\* Lines 295-313: the descriptors to resolve.
toResolve(m) ==
    <<m.return_type>>
      \o (IF hasCode(m) /\ Len(m.code.attr.exceptionHandlers) > 0
          THEN <<ThrowableT>> \o catchTypes(m.code.attr.exceptionHandlers)
          ELSE <<>>)
      \o m.param_types
      \o exceptionsOf(m)

\* Lines 276-315: reflector up to the resolveClasses call.  Reading
\* code.exceptionHandlers of a null code slot raises a TypeError.
reflector ==
    /\ m_pc = "parsed"
    /\ refl_pc = "idle"
    /\ IF hasCode(method) /\ method.code.kind # "attr"
       THEN /\ refl_pc' = "threw"
            /\ UNCHANGED resolveCalls
       ELSE /\ resolveCalls' = Append(resolveCalls, toResolve(method))
            /\ refl_pc' = "resolving"
    /\ UNCHANGED <<is_constructor, mirrorLookups, delivered, cbLog, methVars,
                   argVars, cpVars, rcVars, runVars>>

\* Lines 320-345: the mirror built from the delivered mapping.
mirrorOf(m, isCtor) ==
    [typestr |-> IF isCtor = "true" THEN "Ljava/lang/reflect/Constructor;"
                 ELSE "Ljava/lang/reflect/Method;",
     name |-> m.name,
     parameterTypes |-> m.param_types,
     returnType |-> m.return_type,
     exceptionTypes |-> exceptionsOf(m),
     slot |-> m.slot]

\* Lines 315-347: the callback of resolveClasses, given null or a mapping.
resolveDone ==
    /\ refl_pc = "resolving"
    /\ \E classes \in {"null", "mapping"} :
         /\ delivered' = classes
         /\ IF classes = "null"
            THEN /\ cbLog' = Append(cbLog, NullMirror)
                 /\ UNCHANGED mirrorLookups
            ELSE /\ mirrorLookups' = mirrorLookups \o method.param_types
                                        \o exceptionsOf(method)
                                        \o <<method.return_type>>
                 /\ cbLog' = Append(cbLog, mirrorOf(method, is_constructor))
    /\ refl_pc' = "done"
    /\ UNCHANGED <<is_constructor, resolveCalls, methVars, argVars, cpVars,
                   rcVars, runVars>>

----------------------------------------------------------------------------
(* Specifications *)

\* The Method object and its callers before parse.
MethFresh ==
    /\ method = NewMethod(classfile.owner)
    /\ m_pc = "new"
    /\ heldRef = NoRef
    /\ calls = 0
    /\ queryLog = <<>>
    /\ nativeLog = <<>>
    /\ threadExc = <<>>
    /\ lastReturn = Undefined
    /\ lastCall = NoCall
    /\ codeHistory = <<>>
    /\ slotsSet = {}

ArgsFresh ==
    /\ a_pc = "ready"
    /\ params = <<>>
    /\ caller_stack = <<>>
    /\ convertedArgs = <<>>
    /\ takenArgs = <<>>

ReflFresh ==
    /\ refl_pc = "idle"
    /\ resolveCalls = <<>>
    /\ mirrorLookups = <<>>
    /\ delivered = "pending"
    /\ cbLog = <<>>

AccessFlagSets == [STATIC : BOOLEAN, NATIVE : BOOLEAN, ABSTRACT : BOOLEAN,
                   VARARGS : BOOLEAN]

\* The method_info records with the given owners, signatures and attributes.
MethodInfos(owners, sigs, attrLists) ==
    {[owner |-> o, name |-> sg[1], raw_descriptor |-> sg[2],
      accessFlags |-> f, attrs |-> a] :
        o \in owners, sg \in sigs, f \in AccessFlagSets, a \in attrLists}

MethIdle ==
    /\ classfile = [owner |-> FooCls, name |-> "f",
                    raw_descriptor |-> <<"(", ")", "V">>,
                    accessFlags |-> NewMethod(FooCls).accessFlags,
                    attrs |-> <<>>]
    /\ registry = NoNative
    /\ stackBase = <<>>
    /\ is_constructor = "false"
    /\ MethFresh
    /\ ArgsFresh
    /\ ReflFresh

CpIdle ==
    /\ classpath = <<>>
    /\ jcl_path = <<>>
    /\ cp_arg = <<>>
    /\ dirs = PresentDirs
    /\ cp_pc = "idle"

RcIdle ==
    /\ cls_arg = <<"L", "A", ";">>
    /\ fs = [f \in FilesOf(<<"L", "A", ";">>) |-> "absent"]
    /\ cb_raises = FALSE
    /\ rc_pc = "idle"
    /\ rc_i = 0
    /\ rc_data = NoData
    /\ rc_e = NoError
    /\ probed = <<>>
    /\ readLog = <<>>
    /\ cbCalls = <<>>
    /\ failCalls = <<>>

RunIdle ==
    /\ run_pc = "idle"
    /\ system_initialized = "undefined"
    /\ done_cb = FALSE
    /\ class_name = <<"A">>
    /\ init_desc = <<>>
    /\ cmdline_args = <<>>
    /\ main_method = NULL
    /\ rs_args = <<>>
    /\ started = <<>>
    /\ succeeded = {}
    /\ doneCalls = 0
    /\ asyncOps = [preinitialize_core_classes |-> NoAsync,
                   initialize_class |-> NoAsync]
    /\ thrown = NULL
    /\ preinit_error = "LinkageError"

\* set_classpath on every input and filesystem within the bounds.
InitCp ==
    /\ classpath = <<>>
    /\ jcl_path \in SeqsUpTo(JclChars, MaxJclLen)
    /\ cp_arg \in SeqsUpTo(CpChars, MaxCpLen)
    /\ dirs \in {PresentDirs \cup d : d \in SUBSET OptionalDirs}
    /\ cp_pc = "idle"
    /\ RcIdle
    /\ RunIdle
    /\ MethIdle

NextCp == set_classpath

SpecCp == InitCp /\ [][NextCp]_vars

\* read_classfile on every classpath, class and filesystem within the bounds.
InitRc ==
    /\ classpath \in SeqsUpTo(Paths, MaxCP)
    /\ jcl_path = <<>>
    /\ cp_arg = <<>>
    /\ dirs = PresentDirs
    /\ cp_pc = "set"
    /\ cls_arg \in Descs
    /\ fs \in [FilesOf(cls_arg) -> FsOutcomes]
    /\ cb_raises \in BOOLEAN
    /\ rc_pc = "idle"
    /\ rc_i = 0
    /\ rc_data = NoData
    /\ rc_e = NoError
    /\ probed = <<>>
    /\ readLog = <<>>
    /\ cbCalls = <<>>
    /\ failCalls = <<>>
    /\ RunIdle
    /\ MethIdle

NextRc ==
    \/ read_classfile
    \/ loopProbe
    \/ readFile
    \/ callCb
    \/ catchError
    \/ noFileFound

SpecRc == InitRc /\ [][NextRc]_vars

\* run_class on every runtime state and argument within the bounds.
InitRun ==
    /\ CpIdle
    /\ RcIdle
    /\ run_pc = "idle"
    /\ system_initialized \in SystemInitializedValues
    /\ done_cb \in BOOLEAN
    /\ class_name \in ClassNames
    /\ init_desc = <<>>
    /\ cmdline_args \in CmdlineArgs
    /\ main_method = NULL
    /\ rs_args = <<>>
    /\ started = <<>>
    /\ succeeded = {}
    /\ doneCalls = 0
    /\ asyncOps = [preinitialize_core_classes |-> NoAsync,
                   initialize_class |-> NoAsync]
    /\ thrown = NULL
    /\ preinit_error \in PreinitErrors
    /\ MethIdle

NextRun ==
    \/ run_class
    \/ run_program
    \/ preinitFailed
    \/ initThreadsDone
    \/ initSystemDone
    \/ initializeClassOk
    \/ initializeClassFailed
    \/ lookupDone
    \/ setupDone

SpecRun == InitRun /\ [][NextRun]_vars

\* Method.parse, getNativeFunction and the invocation of the native function.
MethSigs == { <<"loadLibrary", <<"(">> \o StringT \o <<")", "V">> >>,
              <<"registerNatives", <<"(", ")", "V">> >>,
              <<"initIDs", <<"(", ")", "V">> >>,
              <<"f", <<"(", "I", "J", ")", "V">> >> }
InitMeth ==
    /\ classfile \in MethodInfos({SystemCls, FooCls}, MethSigs,
                                 {<<>>, <<CodePlain>>})
    /\ registry \in {NoNative} \cup NativeFns
    /\ stackBase = <<>>
    /\ is_constructor = "false"
    /\ MethFresh /\ ArgsFresh /\ ReflFresh
    /\ CpIdle /\ RcIdle /\ RunIdle
NextMeth == parse \/ getNativeFunction \/ registerNative \/ invoke
SpecMeth == InitMeth /\ [][NextMeth]_vars

\* Method.parse and setSlot.
InitSlot ==
    /\ classfile \in MethodInfos({SystemCls, FooCls}, MethSigs,
                                 {<<>>, <<CodePlain>>})
    /\ registry = NoNative
    /\ stackBase = <<>>
    /\ is_constructor = "false"
    /\ MethFresh /\ ArgsFresh /\ ReflFresh
    /\ CpIdle /\ RcIdle /\ RunIdle
NextSlot == parse \/ setSlot
SpecSlot == InitSlot /\ [][NextSlot]_vars

\* Method.parse, then the caller's push, takeArgs and convertArgs.
ArgSigs == { <<"invoke", descriptorOf(types, <<"V">>)>> :
                 types \in SeqsUpTo(ParamTypeSet, MaxParams) }
             \cup { <<"invoke", PolymorphicDescriptor>> }
InitArgs ==
    /\ classfile \in {cf \in MethodInfos({MethodHandleCls, FooCls}, ArgSigs,
                                         {<<>>}) : ~cf.accessFlags.ABSTRACT}
    /\ registry = NoNative
    /\ stackBase \in SeqsUpTo(StackValues, MaxStack)
    /\ is_constructor = "false"
    /\ MethFresh /\ ArgsFresh /\ ReflFresh
    /\ CpIdle /\ RcIdle /\ RunIdle
NextArgs == parse \/ pushArgs \/ takeArgs \/ convertArgs
SpecArgs == InitArgs /\ [][NextArgs]_vars

\* Method.parse, then Method.reflector and the answer of resolveClasses.
ReflSigs == { <<"f", <<"(", ")", "V">> >>,
              <<"<init>", <<"(", "I", ")", "V">> >>,
              <<"g", <<"(", "J">> \o StringT \o <<")">> \o ObjectT >> }
InitRefl ==
    /\ classfile \in MethodInfos({FooCls}, ReflSigs, AttrLists)
    /\ registry = NoNative
    /\ stackBase = <<>>
    /\ is_constructor \in {"undefined", "false", "true"}
    /\ MethFresh /\ ArgsFresh /\ ReflFresh
    /\ CpIdle /\ RcIdle /\ RunIdle
NextRefl == parse \/ reflector \/ resolveDone
SpecRefl == InitRefl /\ [][NextRefl]_vars

----------------------------------------------------------------------------
(* Properties of read_classfile (under SpecRc) *)

\* The candidate file of the k-th classpath entry.
FileAt(k) == filenameOf(classpath[k], stripDescriptor(cls_arg))
\* The entries under which the class file exists and is readable.
Readable == {k \in 1..Len(classpath) : fs[FileAt(k)] = "ok"}
\* The entries under which the class file exists at all.
Present == {k \in 1..Len(classpath) : fs[FileAt(k)] # "absent"}
Least(S) == CHOOSE k \in S : \A m \in S : k <= m
\* The files whose probe or read raised an I/O error during the call.
Raised == {f \in Range(probed) : fs[f] = "existsThrows"}
              \cup {f \in Range(readLog) : fs[f] = "readThrows"}

\* C1: when the call has returned, exactly one of cb and failure_cb has been
\* invoked, exactly once, whatever the classpath, the filesystem and cb do.
C1_ExactlyOneCallback ==
    rc_pc = "done" => Len(cbCalls) + Len(failCalls) = 1

\* C2: first hit by classpath order.  cb only ever receives the bytes of the
\* file under the earliest entry holding a readable class file, the entries
\* are probed in classpath order up to that entry and none after it is probed
\* or read; and when the earliest entry holding the file is readable, cb does
\* receive those bytes.
C2_FirstHit ==
    /\ cbCalls # <<>> =>
         /\ Readable # {}
         /\ cbCalls = <<bytesOf(FileAt(Least(Readable)))>>
         /\ probed = [k \in 1..Least(Readable) |-> FileAt(k)]
         /\ readLog = <<FileAt(Least(Readable))>>
    /\ (rc_pc = "done" /\ Readable # {} /\ Least(Readable) = Least(Present)) =>
         cbCalls = <<bytesOf(FileAt(Least(Readable)))>>

\* The class file is readable under two entries with distinct content, after
\* an entry that does not hold it, and cb was given the bytes.
C2_Witness ==
    /\ rc_pc = "done"
    /\ cbCalls # <<>>
    /\ Least(Readable) > 1
    /\ \E k \in Readable : k > Least(Readable)
                             /\ bytesOf(FileAt(k)) # cbCalls[1]

\* C3: when the probe or the read of an entry's file raised an I/O error,
\* failure_cb was invoked once, with that very error, cb was not invoked, and
\* the failing entry is the last one searched.
C3_IoErrorAborts ==
    (rc_pc = "done" /\ Raised # {}) =>
        /\ Cardinality(Raised) = 1
        /\ \A f \in Raised :
             /\ failCalls = <<ioError(f)>>
             /\ Last(probed) = f
        /\ cbCalls = <<>>
        /\ probed = [k \in 1..Len(probed) |-> FileAt(k)]
        /\ Len(readLog) <= 1

\* An I/O error was raised although a later entry, under another path, holds
\* a readable copy.
C3_Witness ==
    /\ rc_pc = "done"
    /\ Raised # {}
    /\ \E k \in Readable : k > Len(probed) /\ FileAt(k) \notin Raised

----------------------------------------------------------------------------
(* Properties of set_classpath (under SpecCp) *)

\* An input entry as it is meant to appear on the classpath.
Terminated(p) == IF p # <<>> /\ Last(p) = "/" THEN p ELSE Append(p, "/")
InputList == split(cp_arg, ":") \o <<jcl_path>>
Wanted == [k \in 1..Len(InputList) |-> Terminated(normalize(InputList[k]))]
Kept == {k \in 1..Len(InputList) : Wanted[k] \in dirs}
RankIn(S, k) == Cardinality({m \in S : m <= k})
JclRoot == Terminated(normalize(jcl_path))

\* C4: every entry of the effective classpath is normalized, ends with '/',
\* and names a directory that exists; the entries are exactly the inputs
\* (user entries in split order, then the JCL path) that exist, in input
\* order.
C4_ClasspathEntries ==
    cp_pc = "set" =>
        /\ \A k \in 1..Len(classpath) :
             /\ normalize(classpath[k]) = classpath[k]
             /\ Last(classpath[k]) = "/"
             /\ classpath[k] \in dirs
        /\ Len(classpath) = Cardinality(Kept)
        /\ \A k \in Kept : classpath[RankIn(Kept, k)] = Wanted[k]

\* Three entries were kept, one was dropped, and normalization changed one.
C4_Witness ==
    /\ cp_pc = "set"
    /\ Len(classpath) >= 3
    /\ Len(classpath) < Len(InputList)
    /\ \E k \in Kept : normalize(InputList[k]) # InputList[k]
    /\ \E k \in 1..Len(classpath) : classpath[k] # classpath[1]

----------------------------------------------------------------------------
(* Properties of run_class (under SpecRun) *)

IsPrefix(s, t) == Len(s) <= Len(t) /\ s = SubSeq(t, 1, Len(s))
BootOrderNoSystem == SelectSeq(BootOrder, LAMBDA x : x # "init_system_class")
\* The step was started and its outcome was a failure.
Failed(step) ==
    step \in Range(started) /\ step \notin succeeded /\ run_pc # step
DoneOnce == doneCalls = IF done_cb THEN 1 ELSE 0

\* C6: the steps are started in boot order, each at most once, and a step is
\* started only when every step started before it has reported success.
C6_BootOrder ==
    /\ IsPrefix(started, BootOrder) \/ IsPrefix(started, BootOrderNoSystem)
    /\ \A i, j \in 1..Len(started) : i < j => started[i] \in succeeded
    /\ ("init_args" \in Range(started) \/ "setup_stack" \in Range(started))
           => "initialize_class" \in succeeded

\* Every step of the boot sequence ran.
C6_Witness ==
    /\ run_pc = "finished"
    /\ started = BootOrder
    /\ Range(started) = succeeded

\* C7: init_system_class is invoked iff init_threads reported success and
\* rs.system_initialized is not true (unset, null or false).
C7_SystemClassIffNotInitialized ==
    ("init_system_class" \in Range(started))
        <=> ("init_threads" \in succeeded /\ system_initialized # "true")

\* C8: after a failure of preinitialize_core_classes, init_threads or
\* init_system_class nothing further is started and done_cb is not invoked;
\* a preinitialization failure is rethrown and reaches no continuation.
C8_FailureStops ==
    /\ \A step \in {"preinitialize_core_classes", "init_threads",
                    "init_system_class"} :
         Failed(step) => Last(started) = step /\ doneCalls = 0
    /\ Failed("preinitialize_core_classes") =>
         /\ run_pc = "fatal"
         /\ thrown = preinit_error
         /\ \A op \in DOMAIN asyncOps :
              asyncOps[op].resume = 0 /\ asyncOps[op].except = 0
    /\ (Failed("init_threads") \/ Failed("init_system_class")) =>
         run_pc = "stopped" /\ thrown = NULL

\* init_system_class failed with a done_cb supplied.
C8_Witness ==
    /\ Failed("init_system_class")
    /\ done_cb
    /\ started = <<"preinitialize_core_classes", "init_threads",
                   "init_system_class">>

\* C9: after the lookup of main: if it failed or found nothing, done_cb (when
\* supplied) has been invoked once and setup_stack is not started; if it
\* found main, setup_stack is started, done_cb is not invoked before it
\* reports, and afterwards done_cb has been invoked iff it reported success.
C9_MainLookup ==
    ("method_lookup" \in Range(started) /\ run_pc # "method_lookup") =>
        IF "method_lookup" \in succeeded /\ exists(main_method)
        THEN /\ "setup_stack" \in Range(started)
             /\ run_pc = "setup_stack" => doneCalls = 0
             /\ run_pc # "setup_stack" =>
                  IF "setup_stack" \in succeeded THEN DoneOnce
                  ELSE doneCalls = 0
        ELSE /\ "setup_stack" \notin Range(started)
             /\ run_pc = "finished"
             /\ DoneOnce

\* main was found, its frame was set up and done_cb was invoked.
C9_Witness ==
    /\ run_pc = "finished"
    /\ "setup_stack" \in succeeded
    /\ doneCalls = 1

\* C10: once the collaborator awaited in an async_op suspension has reported
\* its outcome, exactly one of resume_cb and except_cb has been invoked,
\* exactly once.
C10_OneContinuation ==
    \A op \in DOMAIN asyncOps :
        (asyncOps[op].opened /\ run_pc # op) =>
            asyncOps[op].resume + asyncOps[op].except = 1

----------------------------------------------------------------------------
(* Claims about Method.parse and the code slot, under SpecMeth *)

\* Whether the trap table has an entry for the method of the class file.
Trapped ==
    \E key \in trapped_methods :
        /\ <<"L", key[1], ";">> = classfile.owner
        /\ key[2] = <<classfile.name>> \o classfile.raw_descriptor
TrapOfClassfile ==
    Trap(CHOOSE key \in trapped_methods :
             /\ <<"L", key[1], ";">> = classfile.owner
             /\ key[2] = <<classfile.name>> \o classfile.raw_descriptor)
HookName == classfile.name \in {"registerNatives", "initIDs"}
                /\ classfile.raw_descriptor = <<"(", ")", "V">>
NativeOk == getNativeFunctionOk(method)
CodeOk == getCodeAttributeOk(method)

\* C11 (as stated): after parse and any invocations, getNativeFunction() and
\* getCodeAttribute() never both succeed; neither succeeds when the class
\* file marks the method ABSTRACT; exactly one succeeds otherwise.
C11_ExactlyOneAccessor ==
    m_pc = "parsed" =>
        /\ ~(NativeOk /\ CodeOk)
        /\ IF classfile.accessFlags.ABSTRACT
           THEN ~NativeOk /\ ~CodeOk
           ELSE NativeOk \/ CodeOk

\* C11 (amended): the two accessors never both succeed, and neither succeeds
\* exactly when the method is abstract and neither native nor trapped.
C11_ExactlyOneUnlessPureAbstract ==
    m_pc = "parsed" =>
        /\ ~(NativeOk /\ CodeOk)
        /\ (~NativeOk /\ ~CodeOk) <=>
               (/\ classfile.accessFlags.ABSTRACT
                /\ ~classfile.accessFlags.NATIVE
                /\ ~Trapped)

\* An abstract native method whose binder has bound a native function.
C11_Witness ==
    /\ m_pc = "parsed"
    /\ classfile.accessFlags.ABSTRACT
    /\ classfile.accessFlags.NATIVE
    /\ method.code.kind = "native"
    /\ NativeOk /\ ~CodeOk

\* C12: a method matched by the trap table has NATIVE set after parse, its
\* code slot and what getNativeFunction() returns are the trap function of
\* the table, and the native registry is never queried for it.
C12_TrapWins ==
    (m_pc = "parsed" /\ Trapped) =>
        /\ method.accessFlags.NATIVE
        /\ NativeOk
        /\ method.code = TrapOfClassfile
        /\ heldRef \in {NoRef, TrapOfClassfile}
        /\ queryLog = <<>>
        /\ \A k \in 1..Len(nativeLog) : nativeLog[k].fn = TrapOfClassfile

\* A trapped method, abstract and not native in the class file, carrying a
\* Code attribute, whose trap function has been obtained and invoked.
C12_Witness ==
    /\ Trapped
    /\ classfile.accessFlags.ABSTRACT
    /\ ~classfile.accessFlags.NATIVE
    /\ classfile.attrs # <<>>
    /\ heldRef = TrapOfClassfile
    /\ calls > 0

\* C13 (as stated): a method the class file marks ABSTRACT has an unset code
\* slot after parse, and both accessors fail.
C13_AbstractHasNoCode ==
    (m_pc = "parsed" /\ classfile.accessFlags.ABSTRACT) =>
        /\ method.code = Unset
        /\ ~CodeOk
        /\ ~NativeOk

\* C13 (amended): an abstract method that is neither native nor trapped has
\* an unset code slot and both accessors fail; an abstract method that is
\* native or trapped holds a function, and getNativeFunction() succeeds.
C13_PureAbstractHasNoCode ==
    (m_pc = "parsed" /\ classfile.accessFlags.ABSTRACT) =>
        /\ ~CodeOk
        /\ IF classfile.accessFlags.NATIVE \/ Trapped
           THEN isFunction(method.code) /\ NativeOk
           ELSE method.code = Unset /\ ~NativeOk

\* An abstract method, neither native nor trapped, with a Code attribute.
C13_Witness ==
    /\ m_pc = "parsed"
    /\ classfile.accessFlags.ABSTRACT
    /\ ~classfile.accessFlags.NATIVE
    /\ ~Trapped
    /\ classfile.attrs # <<>>
    /\ method.code = Unset

\* C14: a non-trapped native method that is not a registration hook gets the
\* deferred binder; every invocation of the binder queries the registry with
\* (owner internal name, name + descriptor); without an entry it throws
\* UnsatisfiedLinkError naming the full signature, calls no native function
\* and leaves the code slot as it was; with an entry c the code slot becomes
\* c, c is called once with the binder's arguments and its result returned.
C14_DeferredBinder ==
    /\ (m_pc = "parsed" /\ ~Trapped /\ classfile.accessFlags.NATIVE
          /\ ~HookName) => codeHistory[1] = Binder
    /\ (calls > 0 /\ lastCall.fn = Binder) =>
        /\ Len(queryLog) = lastCall.queries + 1
        /\ Last(queryLog) = <<classfile.owner,
                              <<classfile.name>> \o classfile.raw_descriptor>>
        /\ IF lastCall.registry = NoNative
           THEN /\ Len(threadExc) = lastCall.excs + 1
                /\ Last(threadExc).cls = "Ljava/lang/UnsatisfiedLinkError;"
                /\ Last(threadExc).msg =
                       <<"Native method '",
                         DottedName[classfile.owner[2]], "::", classfile.name>>
                         \o classfile.raw_descriptor \o <<"' not implemented.">>
                /\ Len(nativeLog) = lastCall.natives
                /\ method.code = lastCall.code
                /\ lastCall.code = Binder
           ELSE /\ method.code = Native(lastCall.registry)
                /\ Len(nativeLog) = lastCall.natives + 1
                /\ Last(nativeLog) = [fn |-> Native(lastCall.registry),
                                      args |-> lastCall.args]
                /\ lastReturn = <<"result", Native(lastCall.registry),
                                  lastCall.args>>
                /\ Len(threadExc) = lastCall.excs

\* The binder failed once for lack of an entry and later bound a function.
C14_Witness ==
    /\ calls >= 2
    /\ lastCall.fn = Binder
    /\ Len(threadExc) >= 1
    /\ method.code.kind = "native"
    /\ Len(nativeLog) = 1

\* C15: after parse the code slot changes value at most once, and an
\* invocation made while the slot holds a bound native function neither
\* changes the slot nor queries the registry.
C15_WriteOnce ==
    m_pc = "parsed" =>
        /\ Len(codeHistory) <= 2
        /\ (calls > 0 /\ lastCall.code.kind = "native") =>
               /\ method.code = lastCall.code
               /\ Len(queryLog) = lastCall.queries

----------------------------------------------------------------------------
(* Claims about convertArgs and takeArgs, under SpecArgs *)

\* The declared parameter types the descriptor of the class file was built
\* from, their word count, and the words pushed by the caller.
Declared ==
    IF classfile.raw_descriptor = PolymorphicDescriptor
    THEN << <<"[">> \o ObjectT >>
    ELSE CHOOSE types \in SeqsUpTo(ParamTypeSet, MaxParams) :
             descriptorOf(types, <<"V">>) = classfile.raw_descriptor
Receiver == IF classfile.accessFlags.STATIC THEN 0 ELSE 1
Wide(t) == t \in {<<"J">>, <<"D">>}
RECURSIVE WordsBefore(_, _)
WordsBefore(types, k) ==
    IF k <= 1 THEN 0
    ELSE WordsBefore(types, k - 1) + (IF Wide(types[k - 1]) THEN 2 ELSE 1)
ParamWords == Receiver + WordsBefore(Declared, Len(Declared) + 1)
Pushed == [k \in 1..ParamWords |-> argValue(k)]
Polymorphic ==
    /\ classfile.owner = MethodHandleCls
    /\ classfile.accessFlags.NATIVE
    /\ classfile.accessFlags.VARARGS
    /\ classfile.raw_descriptor = PolymorphicDescriptor

\* C16: with raw the getParamWordSize() words taken from the stack, the
\* result of convertArgs is [thread] followed by raw for a signature
\* polymorphic method; otherwise it has 1 + getNumberOfParameters() entries:
\* the thread, the receiver raw[0] when non-static, then for each declared
\* parameter the first of its slots in raw.
C16_ConvertArgs ==
    a_pc = "converted" =>
        /\ Len(takenArgs) = getParamWordSize(method)
        /\ getParamWordSize(method) = ParamWords
        /\ getNumberOfParameters(method) = Receiver + Len(Declared)
        /\ IF Polymorphic
           THEN /\ Len(convertedArgs) = 1 + Len(takenArgs)
                /\ convertedArgs = <<thread>> \o takenArgs
           ELSE /\ Len(convertedArgs) = 1 + getNumberOfParameters(method)
                /\ convertedArgs[1] = thread
                /\ Receiver = 1 => convertedArgs[2] = takenArgs[1]
                /\ \A k \in 1..Len(Declared) :
                       convertedArgs[1 + Receiver + k] =
                           takenArgs[Receiver + WordsBefore(Declared, k) + 1]

\* A non-static method (JI)V: the int is the fourth raw word.
C16_Witness ==
    /\ a_pc = "converted"
    /\ ~Polymorphic
    /\ ~classfile.accessFlags.STATIC
    /\ Declared = << <<"J">>, <<"I">> >>
    /\ convertedArgs = <<thread, argValue(1), argValue(2), argValue(4)>>

\* C17: after pushing getParamWordSize() values on a stack and calling
\* takeArgs, the values returned are those pushed, in the order pushed, and
\* the stack has the content it had before the push.
C17_TakeArgs ==
    a_pc \in {"taken", "converted"} =>
        /\ takenArgs = Pushed
        /\ caller_stack = stackBase

\* A method without parameter words taking its arguments from a stack that
\* is not empty.
C17_Witness ==
    /\ a_pc = "taken"
    /\ ParamWords = 0
    /\ stackBase # <<>>
    /\ takenArgs = <<>>
    /\ caller_stack = stackBase

----------------------------------------------------------------------------
(* Claim about setSlot, under SpecSlot *)

\* C18: slot is -1 until the first setSlot call, and once set it never
\* changes to a different value.
C18_SlotWriteOnce ==
    /\ slotsSet = {} => method.slot = -1
    /\ slotsSet # {} => slotsSet = {method.slot}

----------------------------------------------------------------------------
(* Claim about Method.reflector, under SpecRefl *)

\* C19: a call of reflector issues exactly one resolveClasses call and
\* invokes cb exactly once: with null and no lookup in the mapping when no
\* mapping was delivered, with a Method or Constructor mirror otherwise.
C19_OneResolveOneCallback ==
    refl_pc \in {"done", "threw"} =>
        /\ Len(resolveCalls) = 1
        /\ Len(cbLog) = 1
        /\ delivered = "null" => (cbLog[1] = NullMirror /\ mirrorLookups = <<>>)
        /\ delivered = "mapping" =>
               cbLog[1].typestr \in {"Ljava/lang/reflect/Method;",
                                     "Ljava/lang/reflect/Constructor;"}

----------------------------------------------------------------------------
(* Claim about run_class, under SpecRun *)

\* C20: done_cb is invoked at most once in an execution of run_class.
C20_DoneAtMostOnce == doneCalls <= 1

\* The lookup succeeded without finding main: done_cb was invoked, once.
C20_Witness ==
    /\ run_pc = "finished"
    /\ done_cb
    /\ "method_lookup" \in succeeded
    /\ main_method = NULL
    /\ doneCalls = 1

----------------------------------------------------------------------------
(* Claim about the params array of convertArgs, under SpecArgs *)

\* C21: after convertArgs(thread, params) the params array has the length
\* and the content it had when it was passed in.
C21_ParamsUnmodified ==
    a_pc = "converted" =>
        /\ Len(params) = Len(takenArgs)
        /\ params = takenArgs

====
